---------------------------- MODULE Spec2Model ----------------------------
(***************************************************************************)
(* Model of the harassment-analysis service (src/api.py): the text         *)
(* cleaner, the toxicity analyzer, the MongoDB-backed DatabaseManager,     *)
(* the HTTP handlers and the background batch run over                     *)
(* harassment_posts.json.                                                  *)
(*                                                                         *)
(* Texts are sequences of one-character strings.  Scores are integers in   *)
(* hundredths (70 stands for 0.7).  Timestamps are readings of a logical   *)
(* clock.                                                                  *)
(***************************************************************************)
EXTENDS Integers, Sequences, FiniteSets, TLC

VARIABLES
    posts,        \* db["posts"]: the documents, in insertion order
    analyses,     \* db["toxicity_analysis"]: the documents, in insertion order
    file,         \* harassment_posts.json: "absent" or "present"
    pending,      \* background tasks added by process_file and not yet started
    task,         \* the background batch run (process_posts_background)
    response,     \* the HTTP response the last step sent (none: it was no handler)
    log,          \* the logger.error lines the last step wrote
    now,          \* logical clock read by datetime.now()
    cleanIn,      \* /clean-text: the text submitted
    cleanOuts,    \* /clean-text: the successive outputs, each fed back as input
    scorerOut,    \* /analyze-toxicity: what predict does on the text submitted
    analysisOut,  \* /analyze-toxicity: the body returned (<<>>: none yet)
    workers       \* server processes on one database: each one's running handler

vars == <<posts, analyses, file, pending, task, response, log, now,
          cleanIn, cleanOuts, scorerOut, analysisOut, workers>>

-----------------------------------------------------------------------------
(* Character classes of Python's re module, on the ASCII subset.           *)

Lower == {"a","b","c","d","e","f","g","h","i","j","k","l","m",
          "n","o","p","q","r","s","t","u","v","w","x","y","z"}
Upper == {"A","B","C","D","E","F","G","H","I","J","K","L","M",
          "N","O","P","Q","R","S","T","U","V","W","X","Y","Z"}
Digits == {"0","1","2","3","4","5","6","7","8","9"}

\* \w
WordChars == Lower \cup Upper \cup Digits \cup {"_"}

\* \s, and the characters str.strip() removes
SpaceChars == {" ", "\t", "\n", "\r", "\f"}

\* The range $-_ of the URL pattern's third alternative: code points 0x24..0x5F.
DollarToUnderscore ==
    {"$","%","&","'","(",")","*","+",",","-",".","/",":",";","<","=",">","?",
     "@","[","\\","]","^","_"} \cup Digits \cup Upper

\* One character of the URL pattern's repeated group:
\* [a-zA-Z] | [0-9] | [$-_@.&+] | [!*\\(\\),]
\* (the percent-escape alternative %XX is made of characters of these classes).
UrlChars ==
    Lower \cup Upper \cup Digits
    \cup DollarToUnderscore \cup {"@", ".", "&", "+"}
    \cup {"!", "*", "\\", "(", ")", ","}

\* Mutant of KeptChars: the slash is kept like the other punctuation.
KeptCharsWithSlash ==
    WordChars \cup SpaceChars \cup {".", "!", "?", ",", ":", ";", "-", "/"}

\* [^\w\s\.\!\?\,\:\;\-] removes everything but these
KeptChars == WordChars \cup SpaceChars \cup {".", "!", "?", ",", ":", ";", "-"}

-----------------------------------------------------------------------------
(* TextCleaner.clean_text                                                  *)

\* s[i..] starts with p
HasPrefixAt(s, i, p) ==
    /\ i + Len(p) - 1 <= Len(s)
    /\ \A k \in 1..Len(p) : s[i + k - 1] = p[k]

RECURSIVE RunEnd(_, _, _)
\* The first index >= i whose character is not in class (Len(s)+1 if none):
\* the end of a greedy + or * over a character class.
RunEnd(s, i, class) ==
    IF i <= Len(s) /\ s[i] \in class THEN RunEnd(s, i + 1, class) ELSE i

\* http[s]?://(...)+ matched at i: the index after the match, 0 if no match.
UrlMatchEnd(s, i) ==
    LET http == <<"h","t","t","p">>
        sep  == <<":","/","/">>
        body == IF HasPrefixAt(s, i, http \o <<"s">> \o sep) THEN i + 8
                ELSE IF HasPrefixAt(s, i, http \o sep) THEN i + 7
                ELSE 0
    IN  IF body = 0 THEN 0
        ELSE IF RunEnd(s, body, UrlChars) > body THEN RunEnd(s, body, UrlChars)
        ELSE 0

RECURSIVE RemoveUrlsFrom(_, _)
RemoveUrlsFrom(s, i) ==
    IF i > Len(s) THEN <<>>
    ELSE IF UrlMatchEnd(s, i) # 0 THEN RemoveUrlsFrom(s, UrlMatchEnd(s, i))
    ELSE <<s[i]>> \o RemoveUrlsFrom(s, i + 1)

\* re.sub(r'http[s]?://(...)+', '', text)
RemoveUrls(s) == RemoveUrlsFrom(s, 1)

\* @\w+ matched at i: the index after the match, 0 if no match.
MentionMatchEnd(s, i) ==
    IF s[i] = "@" /\ RunEnd(s, i + 1, WordChars) > i + 1
    THEN RunEnd(s, i + 1, WordChars) ELSE 0

RECURSIVE RemoveMentionsFrom(_, _)
RemoveMentionsFrom(s, i) ==
    IF i > Len(s) THEN <<>>
    ELSE IF MentionMatchEnd(s, i) # 0
         THEN RemoveMentionsFrom(s, MentionMatchEnd(s, i))
    ELSE <<s[i]>> \o RemoveMentionsFrom(s, i + 1)

NotAt(c) == c # "@"

\* Mutant of RemoveMentions: only the @ is removed, the name stays.
RemoveMentionMarkers(s) == SelectSeq(s, NotAt)

\* re.sub(r'@\w+', '', text)
RemoveMentions(s) == RemoveMentionsFrom(s, 1)

\* #(\w+) matched at i: the index after the match, 0 if no match.
HashtagMatchEnd(s, i) ==
    IF s[i] = "#" /\ RunEnd(s, i + 1, WordChars) > i + 1
    THEN RunEnd(s, i + 1, WordChars) ELSE 0

RECURSIVE UnwrapHashtagsFrom(_, _)
UnwrapHashtagsFrom(s, i) ==
    IF i > Len(s) THEN <<>>
    ELSE IF HashtagMatchEnd(s, i) # 0
         THEN SubSeq(s, i + 1, HashtagMatchEnd(s, i) - 1)
              \o UnwrapHashtagsFrom(s, HashtagMatchEnd(s, i))
    ELSE <<s[i]>> \o UnwrapHashtagsFrom(s, i + 1)

\* re.sub(r'#(\w+)', r'\1', text)
UnwrapHashtags(s) == UnwrapHashtagsFrom(s, 1)

IsKept(c) == c \in KeptChars

\* re.sub(r'[^\w\s\.\!\?\,\:\;\-]', '', text)
RemoveSpecials(s) == SelectSeq(s, IsKept)

RECURSIVE CollapseSpacesFrom(_, _)
CollapseSpacesFrom(s, i) ==
    IF i > Len(s) THEN <<>>
    ELSE IF s[i] \in SpaceChars
         THEN <<" ">> \o CollapseSpacesFrom(s, RunEnd(s, i, SpaceChars))
    ELSE <<s[i]>> \o CollapseSpacesFrom(s, i + 1)

\* re.sub(r'\s+', ' ', text)
CollapseSpaces(s) == CollapseSpacesFrom(s, 1)

RECURSIVE LastNonSpace(_, _)
\* The greatest index <= i whose character is not whitespace (0 if none).
LastNonSpace(s, i) ==
    IF i >= 1 /\ s[i] \in SpaceChars THEN LastNonSpace(s, i - 1) ELSE i

\* text.strip()
Strip(s) == SubSeq(s, RunEnd(s, 1, SpaceChars), LastNonSpace(s, Len(s)))

clean_text(text) ==
    IF text = <<>> THEN <<>>
    ELSE Strip(CollapseSpaces(RemoveSpecials(UnwrapHashtags(
             RemoveMentions(RemoveUrls(text))))))

-----------------------------------------------------------------------------
(* ToxicityAnalyzer.analyze_toxicity                                       *)

\* The six scores analyze_toxicity copies into its result.
SixScores ==
    {"toxicity", "severe_toxicity", "obscene", "threat", "insult",
     "identity_attack"}

\* The keys of the dict Detoxify('multilingual').predict returns.
PredictKeys == SixScores \cup {"sexual_explicit"}

Max(S) == CHOOSE x \in S : \A y \in S : y <= x

\* Mutant of ErrorAnalysis: the default values pass for a low-confidence result.
ErrorAnalysisAsLow ==
    [toxicity |-> 0, severe_toxicity |-> 0, obscene |-> 0, threat |-> 0,
     insult |-> 0, identity_attack |-> 0,
     is_toxic |-> FALSE, confidence_level |-> "low"]

\* The except branch: the default values returned when anything raised.
ErrorAnalysis ==
    [toxicity |-> 0, severe_toxicity |-> 0, obscene |-> 0, threat |-> 0,
     insult |-> 0, identity_attack |-> 0,
     is_toxic |-> FALSE, confidence_level |-> "error"]

\* Mutant of IsToxic: the threshold itself counts as toxic.
IsToxicAtThreshold(results) == results["toxicity"] >= 70

\* results['toxicity'] > 0.7
IsToxic(results) == results["toxicity"] > 70

\* max(results.values())
MaxScore(results) == Max({results[k] : k \in DOMAIN results})

\* The if / elif / else over max_score.
Confidence(max_score) ==
    IF max_score > 80 THEN "high"
    ELSE IF max_score > 50 THEN "medium"
    ELSE "low"

\* pred is the outcome of self.model.predict(text): it raised, or it returned
\* the dict pred.results.  A missing key raises KeyError inside the try.
analyze_toxicity(pred) ==
    IF pred.raised \/ ~(SixScores \subseteq DOMAIN pred.results)
    THEN ErrorAnalysis
    ELSE LET results == pred.results IN
         [toxicity        |-> results["toxicity"],
          severe_toxicity |-> results["severe_toxicity"],
          obscene         |-> results["obscene"],
          threat          |-> results["threat"],
          insult          |-> results["insult"],
          identity_attack |-> results["identity_attack"],
          is_toxic        |-> IsToxic(results),
          confidence_level |-> Confidence(MaxScore(results))]

-----------------------------------------------------------------------------
(* DatabaseManager                                                         *)

\* The indexes of the documents of coll matching {"id": id}.
Matching(coll, id) == {i \in 1..Len(coll) : coll[i].id = id}

\* find_one({"id": id}): the first match, in natural order.
FirstMatch(coll, id) == CHOOSE i \in Matching(coll, id) : \A j \in Matching(coll, id) : i <= j

\* {"$set": data} applied to doc: the fields of data are written, the
\* others are left as they are.
SetFields(doc, data) ==
    [f \in DOMAIN doc \cup DOMAIN data |->
        IF f \in DOMAIN data THEN data[f] ELSE doc[f]]

\* update_one({"id": id}, {"$set": data}): the first match is updated.
UpdateOne(coll, id, data) ==
    IF Matching(coll, id) = {} THEN coll
    ELSE [coll EXCEPT ![FirstMatch(coll, id)] = SetFields(@, data)]

\* insert_one(data)
InsertOne(coll, data) == Append(coll, data)

\* Mutant of Upsert: the document is inserted without looking for one.
UpsertAlwaysInserts(coll, data) == InsertOne(coll, data)

\* The body of save_post and of save_analysis when no store call raises:
\* find_one, then update_one if a document was found, insert_one otherwise.
Upsert(coll, data) ==
    IF Matching(coll, data.id) # {}
    THEN UpdateOne(coll, data.id, data)
    ELSE InsertOne(coll, data)

save_post(coll, post_data) == Upsert(coll, post_data)

save_analysis(coll, analysis_data) == Upsert(coll, analysis_data)

\* cursor.limit(limit) on find({}, {"_id": 0})
Limit(coll, limit) == SubSeq(coll, 1, IF limit < Len(coll) THEN limit ELSE Len(coll))

-----------------------------------------------------------------------------
(* Bounds and inputs                                                       *)

MaxItems == 2     \* longest list in harassment_posts.json
MaxUpload == 1    \* longest list in one upload
MaxClock == 2     \* items the batch runs of one behaviour process in all
MaxPending == 1   \* background tasks waiting to start
MaxTokens == 4    \* tokens in a text submitted to /clean-text
MaxRuns == 1      \* handlers one of several server processes starts
MaxShared == 1    \* longest list in the file several server processes load

\* limit: int = 100
DefaultLimit == 100

Ids == {"1", "2"}

ExampleText ==
    <<"C","h","e","c","k"," ","h","t","t","p",":","/","/","x",".","c","o"," ",
      "@","b","o","b"," ","y","o","u"," ","a","r","e"," ","#","t","r","a","s","h",
      " ","!","!">>

OtherText == <<"#","o","k"," "," ","@","a","l","l">>

Texts == {ExampleText, OtherText}

\* A post as collect_posts builds it and as SocialPost.dict() returns it.
RawItem(id, text) ==
    [id |-> id, text |-> text, author_id |-> "user_7", created_at |-> "t0",
     likes |-> 0, retweets |-> 0, replies |-> 0, url |-> "u",
     collected_at |-> "t0"]

Items == {RawItem(id, text) : id \in Ids, text \in Texts}

\* The lists of at most n items.
ItemLists(n) == UNION {[1..k -> Items] : k \in 0..n}

\* A dict returned by predict: every key of PredictKeys, three of them varied.
Scores(tox, ins, sex) ==
    [k \in PredictKeys |->
        IF k = "toxicity" THEN tox
        ELSE IF k = "insult" THEN ins
        ELSE IF k = "sexual_explicit" THEN sex
        ELSE 0]

Raised == [raised |-> TRUE, results |-> <<>>]

Returned(results) == [raised |-> FALSE, results |-> results]

\* The outcomes of self.model.predict the batch run is given.
Predictions ==
    {Raised, Returned([toxicity |-> 90]),
     Returned(Scores(70, 50, 0)), Returned(Scores(71, 80, 0))}

\* The scores around the thresholds 0.5, 0.7 and 0.8.
Levels == {0, 50, 51, 70, 71, 80, 81, 100}

\* The outcomes of self.model.predict /analyze-toxicity is given: it raises,
\* it returns a dict without some of the six keys, or it returns a dict over
\* PredictKeys with toxicity and one other score varied.
ScorerOutcomes ==
    {Raised, Returned([toxicity |-> 90])}
    \cup {Returned([k \in PredictKeys |->
                       IF k = "toxicity" THEN tox ELSE IF k = other THEN v ELSE 0]) :
            tox \in Levels, other \in PredictKeys \ {"toxicity"}, v \in Levels}

\* The texts submitted to /clean-text: concatenations of these tokens.
Tokens ==
    {<<"h","t","t","p">>, <<"s">>, <<":","/","/">>, <<"/">>, <<"x">>,
     <<"@">>, <<"#">>, <<" ">>, <<"\t">>, <<"!">>, <<"\"">>}

RECURSIVE Concat(_)
Concat(ts) == IF ts = <<>> THEN <<>> ELSE Head(ts) \o Concat(Tail(ts))

CleanInputs == {Concat(ts) : ts \in UNION {[1..k -> Tokens] : k \in 0..MaxTokens}}

-----------------------------------------------------------------------------
(* State                                                                   *)

\* The frame of process_posts_background.  loaded: json.load has returned;
\* scored: the text of the last call of analyze_toxicity.  When the function
\* returns, posts_data is dropped; the counts stay, as its last log lines.
IdleTask ==
    [pc |-> "idle", loaded |-> FALSE, items |-> <<>>, idx |-> 1,
     processed |-> 0, total |-> 0, scored |-> <<>>]

NoResponse == [op |-> "none", status |-> 0, count |-> 0]

\* The server processes started on the same MONGO_URL: each has its own
\* event loop, and all of them read and write the same two collections.
Workers == {"w1", "w2"}

\* The handler or batch run a server process is in, between two of its calls
\* to the database.  kind: the handler it runs or ran last, "upload"
\* (upload_posts) or "batch" (process_posts_background), "none" before the
\* first; items: what its loop has still to take; pc: "idle", "next",
\* "post_find", "post_write", "analysis_find", "analysis_write"; existing:
\* whether its last find_one returned a document; last: how its previous
\* handler ended ("none", "done", "aborted"); runs: how many handlers it
\* has started.
IdleWorker ==
    [kind |-> "none", items |-> <<>>, pc |-> "idle", post_record |-> <<>>,
     analysis_record |-> <<>>, existing |-> FALSE, last |-> "none", runs |-> 0]

InitPipeline ==
    /\ posts = <<>>
    /\ analyses = <<>>
    /\ file = "absent"
    /\ pending = 0
    /\ task = IdleTask
    /\ response = NoResponse
    /\ log = <<>>
    /\ now = 0
    /\ workers = [w \in Workers |-> IdleWorker]

Init ==
    /\ InitPipeline
    /\ cleanIn = <<>>
    /\ cleanOuts = <<>>
    /\ scorerOut = Raised
    /\ analysisOut = <<>>

pipelineVars == <<posts, analyses, file, pending, task, response, log, now>>

\* What the steps of the single-process pipeline leave alone.
adHocVars == <<cleanIn, cleanOuts, scorerOut, analysisOut, workers>>

\* The handlers are async functions that never await, and so is the batch
\* run: on the single event loop of uvicorn.run(app) no handler runs while
\* a batch run is between two of its items.
LoopFree == task.pc # "running"

-----------------------------------------------------------------------------
(* The collector (src/app.py) writing harassment_posts.json                *)

\* save_to_json: open(filename, 'w') creates the file.  What the file holds
\* when a batch run opens it is drawn there (FileContents).
save_to_json ==
    /\ file' = "present"
    /\ response' = NoResponse
    /\ log' = <<>>
    /\ UNCHANGED <<posts, analyses, pending, task, now, adHocVars>>

-----------------------------------------------------------------------------
(* The handlers                                                            *)

RECURSIVE SaveAll(_, _)
\* The loop of upload_posts over ps when no save_post raises.
SaveAll(coll, ps) ==
    IF ps = <<>> THEN coll ELSE SaveAll(save_post(coll, Head(ps)), Tail(ps))

\* POST /upload-posts with the list ps; save_post raises on post number
\* failAt (0: on none).
upload_posts(ps, failAt) ==
    /\ LoopFree
    /\ failAt \in 0..Len(ps)
    /\ IF failAt = 0
       THEN /\ posts' = SaveAll(posts, ps)
            /\ response' = [op |-> "upload_posts", status |-> 200, count |-> Len(ps)]
            /\ log' = <<>>
       ELSE /\ posts' = SaveAll(posts, SubSeq(ps, 1, failAt - 1))
            /\ response' = [op |-> "upload_posts", status |-> 500, count |-> 0]
            /\ log' = <<"Erreur sauvegarde post">>
    /\ UNCHANGED <<analyses, file, pending, task, now, adHocVars>>

\* POST /process-file.  The HTTPException(404) is raised inside the try and
\* caught by its except Exception, which raises HTTPException(500).
process_file ==
    /\ LoopFree
    /\ IF file = "absent"
       THEN /\ response' = [op |-> "process_file", status |-> 500, count |-> 0]
            /\ pending' = pending
       ELSE /\ pending < MaxPending
            /\ pending' = pending + 1
            /\ response' = [op |-> "process_file", status |-> 200, count |-> 0]
    /\ log' = <<>>
    /\ UNCHANGED <<posts, analyses, file, task, now, adHocVars>>

\* GET /get-posts?limit=..; storeUp: the find on the collection succeeds.
\* DatabaseManager.get_posts logs and returns [] when it raises.
get_posts(limit, storeUp) ==
    /\ LoopFree
    /\ LET found == IF storeUp THEN Limit(posts, limit) ELSE <<>> IN
       response' = [op |-> "get_posts", status |-> 200, count |-> Len(found)]
    /\ log' = IF storeUp THEN <<>> ELSE <<"Erreur recuperation posts">>
    /\ UNCHANGED <<posts, analyses, file, pending, task, now, adHocVars>>

\* GET /get-analysis?limit=..
get_analysis(limit, storeUp) ==
    /\ LoopFree
    /\ LET found == IF storeUp THEN Limit(analyses, limit) ELSE <<>> IN
       response' = [op |-> "get_analysis", status |-> 200, count |-> Len(found)]
    /\ log' = IF storeUp THEN <<>> ELSE <<"Erreur recuperation analyses">>
    /\ UNCHANGED <<posts, analyses, file, pending, task, now, adHocVars>>

-----------------------------------------------------------------------------
(* process_posts_background                                                *)

\* What open and json.load find in the file: the list save_to_json dumped
\* (non-empty: main() saves only a non-empty collection), any other JSON
\* list, or no JSON at all (a dump cut short, after open truncated the file).
Malformed == [valid |-> FALSE, items |-> <<>>]

FileContents ==
    {Malformed} \cup {[valid |-> TRUE, items |-> l] : l \in ItemLists(MaxItems)}

\* The task starts: open and json.load.  A file that is no JSON raises into
\* the function's except, which logs; the run is over.
BatchLoad(content) ==
    /\ LoopFree
    /\ pending > 0
    /\ file = "present"
    /\ now + Len(content.items) <= MaxClock
    /\ pending' = pending - 1
    /\ IF ~content.valid
       THEN /\ task' = [IdleTask EXCEPT !.pc = "aborted"]
            /\ log' = <<"Erreur traitement background">>
       ELSE /\ task' = [IdleTask EXCEPT
                           !.pc = IF content.items = <<>> THEN "done" ELSE "running",
                           !.loaded = TRUE,
                           !.items = IF content.items = <<>> THEN <<>> ELSE content.items,
                           !.total = Len(content.items)]
            /\ log' = <<>>
    /\ response' = NoResponse
    /\ UNCHANGED <<posts, analyses, file, now, adHocVars>>

\* {**post_data, 'cleaned_text': .., 'processed_at': ..}
PostRecord(post_data, cleaned_text, at) ==
    SetFields(post_data, [cleaned_text |-> cleaned_text, processed_at |-> at])

\* {'id': .., 'text': cleaned_text, 'analyzed_at': .., **toxicity_analysis}
AnalysisRecord(post_data, cleaned_text, at, toxicity_analysis) ==
    SetFields([id |-> post_data.id, text |-> cleaned_text, analyzed_at |-> at],
              toxicity_analysis)

\* One pass of the for loop, on item task.idx.  pred is what predict does on
\* the cleaned text; failing names the store call that raises ("none",
\* "save_post", "save_analysis").  A raising save re-raises out of the loop
\* into the function's except, which logs; the run is over.
BatchItem(pred, failing) ==
    /\ task.pc = "running"
    /\ LET post_data == task.items[task.idx]
           cleaned_text == clean_text(post_data.text)
           toxicity_analysis == analyze_toxicity(pred)
           post_record == PostRecord(post_data, cleaned_text, now)
           analysis_record ==
               AnalysisRecord(post_data, cleaned_text, now, toxicity_analysis)
           scorerLog == IF toxicity_analysis.confidence_level = "error"
                        THEN <<"Erreur analyse toxicite">> ELSE <<>>
       IN  /\ now' = now + 1
           /\ CASE failing = "save_post" ->
                    /\ UNCHANGED <<posts, analyses>>
                    /\ task' = [task EXCEPT !.pc = "aborted", !.items = <<>>,
                                            !.scored = cleaned_text]
                    /\ log' = scorerLog \o <<"Erreur sauvegarde post",
                                             "Erreur traitement background">>
                [] failing = "save_analysis" ->
                    /\ posts' = save_post(posts, post_record)
                    /\ UNCHANGED analyses
                    /\ task' = [task EXCEPT !.pc = "aborted", !.items = <<>>,
                                            !.scored = cleaned_text]
                    /\ log' = scorerLog \o <<"Erreur sauvegarde analyse",
                                             "Erreur traitement background">>
                [] OTHER ->
                    /\ posts' = save_post(posts, post_record)
                    /\ analyses' = save_analysis(analyses, analysis_record)
                    /\ task' = [task EXCEPT
                                   !.pc = IF task.idx = task.total
                                          THEN "done" ELSE "running",
                                   !.items = IF task.idx = task.total
                                             THEN <<>> ELSE @,
                                   !.idx = @ + 1,
                                   !.processed = @ + 1,
                                   !.scored = cleaned_text]
                    /\ log' = scorerLog
    /\ response' = NoResponse
    /\ UNCHANGED <<file, pending, adHocVars>>

-----------------------------------------------------------------------------
(* POST /clean-text                                                        *)

\* The endpoint on the submitted text, then on the text it returned.
clean_text_endpoint ==
    /\ Len(cleanOuts) < 2
    /\ cleanOuts' = Append(cleanOuts,
                           clean_text(IF cleanOuts = <<>> THEN cleanIn
                                      ELSE cleanOuts[Len(cleanOuts)]))
    /\ UNCHANGED <<pipelineVars, cleanIn, scorerOut, analysisOut, workers>>

-----------------------------------------------------------------------------
(* POST /analyze-toxicity                                                  *)

analyze_toxicity_endpoint ==
    /\ analysisOut = <<>>
    /\ analysisOut' = analyze_toxicity(scorerOut)
    /\ UNCHANGED <<pipelineVars, cleanIn, cleanOuts, scorerOut, workers>>

-----------------------------------------------------------------------------
(* Specifications                                                          *)

\* The batch pipeline alone: the collector's file, POST /process-file and
\* the background runs.
NextBatch ==
    \/ save_to_json
    \/ process_file
    \/ \E content \in FileContents : BatchLoad(content)
    \/ \E pred \in Predictions, failing \in {"none", "save_post", "save_analysis"} :
          BatchItem(pred, failing)

SpecBatch == Init /\ [][NextBatch]_vars

\* The whole service: the batch pipeline, the uploads and the queries.
Next ==
    \/ NextBatch
    \/ \E ps \in ItemLists(MaxUpload), failAt \in 0..MaxUpload : upload_posts(ps, failAt)
    \/ \E limit \in {1, DefaultLimit}, storeUp \in BOOLEAN : get_posts(limit, storeUp)
    \/ \E limit \in {1, DefaultLimit}, storeUp \in BOOLEAN : get_analysis(limit, storeUp)

Spec == Init /\ [][Next]_vars

InitClean ==
    /\ InitPipeline
    /\ cleanIn \in CleanInputs
    /\ cleanOuts = <<>>
    /\ scorerOut = Raised
    /\ analysisOut = <<>>

NextClean == clean_text_endpoint

SpecClean == InitClean /\ [][NextClean]_vars

InitClassify ==
    /\ InitPipeline
    /\ cleanIn = <<>>
    /\ cleanOuts = <<>>
    /\ scorerOut \in ScorerOutcomes
    /\ analysisOut = <<>>

NextClassify == analyze_toxicity_endpoint

SpecClassify == InitClassify /\ [][NextClassify]_vars

-----------------------------------------------------------------------------
(* Several server processes on one database                                *)

\* Each call of pymongo (find_one, update_one, insert_one) is one round trip
\* to the server, which applies it atomically; between two calls of one
\* process the calls of another process may be applied.  save_post and
\* save_analysis hold no lock and no transaction, and the collections have
\* no unique index on 'id'.

\* POST /upload-posts reaches process w.
WorkerUpload(w, ps) ==
    /\ workers[w].pc = "idle"
    /\ workers[w].runs < MaxRuns
    /\ workers' = [workers EXCEPT
                      ![w] = [IdleWorker EXCEPT !.kind = "upload", !.pc = "next",
                                                !.items = ps,
                                                !.runs = workers[w].runs + 1]]
    /\ UNCHANGED <<posts, analyses, file, pending, task, response, log, now,
                   cleanIn, cleanOuts, scorerOut, analysisOut>>

\* POST /process-file reaches process w, whose background task opens and
\* loads the file.  A file that is no JSON ends the run.
WorkerBatch(w, content) ==
    /\ workers[w].pc = "idle"
    /\ workers[w].runs < MaxRuns
    /\ file = "present"
    /\ workers' = [workers EXCEPT
                      ![w] = IF content.valid
                             THEN [IdleWorker EXCEPT !.kind = "batch",
                                                     !.pc = "next",
                                                     !.items = content.items,
                                                     !.runs = workers[w].runs + 1]
                             ELSE [IdleWorker EXCEPT !.kind = "batch",
                                                     !.last = "aborted",
                                                     !.runs = workers[w].runs + 1]]
    /\ UNCHANGED <<posts, analyses, file, pending, task, response, log, now,
                   cleanIn, cleanOuts, scorerOut, analysisOut>>

\* The loop of process w takes its next item, up to the call of save_post:
\* post.dict() for an upload; cleaning, classifying and building the two
\* records for a batch run.
WorkerItem(w, pred) ==
    /\ workers[w].pc = "next"
    /\ workers[w].items # <<>>
    /\ LET post_data == Head(workers[w].items)
           cleaned_text == clean_text(post_data.text)
           toxicity_analysis == analyze_toxicity(pred)
       IN  IF workers[w].kind = "upload"
           THEN /\ workers' = [workers EXCEPT
                                  ![w].items = Tail(@),
                                  ![w].pc = "post_find",
                                  ![w].post_record = post_data]
                /\ now' = now
           ELSE /\ now < MaxClock
                /\ workers' = [workers EXCEPT
                                  ![w].items = Tail(@),
                                  ![w].pc = "post_find",
                                  ![w].post_record =
                                      PostRecord(post_data, cleaned_text, now),
                                  ![w].analysis_record =
                                      AnalysisRecord(post_data, cleaned_text, now,
                                                     toxicity_analysis)]
                /\ now' = now + 1
    /\ UNCHANGED <<posts, analyses, file, pending, task, response, log,
                   cleanIn, cleanOuts, scorerOut, analysisOut>>

\* The loop of process w is over: the handler or the run returns.
WorkerReturn(w) ==
    /\ workers[w].pc = "next"
    /\ workers[w].items = <<>>
    /\ workers' = [workers EXCEPT ![w] = [IdleWorker EXCEPT !.kind = workers[w].kind,
                                              !.last = "done",
                                              !.runs = workers[w].runs]]
    /\ UNCHANGED <<posts, analyses, file, pending, task, response, log, now,
                   cleanIn, cleanOuts, scorerOut, analysisOut>>

\* self.collection.find_one({"id": ..}) of save_post or save_analysis in
\* process w; storeUp: the call does not raise.  A raising call ends the
\* handler (500) or the run (the function's except).
WorkerFindOne(w, storeUp) ==
    /\ workers[w].pc \in {"post_find", "analysis_find"}
    /\ LET coll == IF workers[w].pc = "post_find" THEN posts ELSE analyses
           id == IF workers[w].pc = "post_find"
                 THEN workers[w].post_record.id
                 ELSE workers[w].analysis_record.id
       IN  workers' = [workers EXCEPT
                          ![w] = IF ~storeUp
                                 THEN [IdleWorker EXCEPT !.kind = workers[w].kind,
                                                         !.last = "aborted",
                                                         !.runs = workers[w].runs]
                                 ELSE [@ EXCEPT
                                          !.existing = Matching(coll, id) # {},
                                          !.pc = IF @ = "post_find"
                                                 THEN "post_write"
                                                 ELSE "analysis_write"]]
    /\ UNCHANGED <<posts, analyses, file, pending, task, response, log, now,
                   cleanIn, cleanOuts, scorerOut, analysisOut>>

\* The branch save_post or save_analysis took on what its find_one returned:
\* update_one({"id": ..}, {"$set": ..}) if existing, else insert_one(..).
WorkerWriteOne(w, storeUp) ==
    /\ workers[w].pc \in {"post_write", "analysis_write"}
    /\ IF ~storeUp
       THEN /\ workers' = [workers EXCEPT
                              ![w] = [IdleWorker EXCEPT !.kind = workers[w].kind,
                                                        !.last = "aborted",
                                                        !.runs = workers[w].runs]]
            /\ UNCHANGED <<posts, analyses>>
       ELSE IF workers[w].pc = "post_write"
       THEN /\ posts' = IF workers[w].existing
                        THEN UpdateOne(posts, workers[w].post_record.id,
                                       workers[w].post_record)
                        ELSE InsertOne(posts, workers[w].post_record)
            /\ workers' = [workers EXCEPT
                              ![w].pc = IF workers[w].kind = "batch"
                                        THEN "analysis_find" ELSE "next"]
            /\ UNCHANGED analyses
       ELSE /\ analyses' = IF workers[w].existing
                           THEN UpdateOne(analyses, workers[w].analysis_record.id,
                                          workers[w].analysis_record)
                           ELSE InsertOne(analyses, workers[w].analysis_record)
            /\ workers' = [workers EXCEPT ![w].pc = "next"]
            /\ UNCHANGED posts
    /\ UNCHANGED <<file, pending, task, response, log, now,
                   cleanIn, cleanOuts, scorerOut, analysisOut>>

\* What the processes find in the file (see FileContents).
SharedFileContents ==
    {Malformed} \cup {[valid |-> TRUE, items |-> l] : l \in ItemLists(MaxShared)}

NextWorkers ==
    \/ save_to_json
    \/ \E w \in Workers, ps \in ItemLists(MaxUpload) : WorkerUpload(w, ps)
    \/ \E w \in Workers, content \in SharedFileContents : WorkerBatch(w, content)
    \/ \E w \in Workers, pred \in Predictions : WorkerItem(w, pred)
    \/ \E w \in Workers : WorkerReturn(w)
    \/ \E w \in Workers, storeUp \in BOOLEAN : WorkerFindOne(w, storeUp)
    \/ \E w \in Workers, storeUp \in BOOLEAN : WorkerWriteOne(w, storeUp)

SpecWorkers == Init /\ [][NextWorkers]_vars

-----------------------------------------------------------------------------
(* Properties                                                              *)

\* No two documents of coll have the same id.
UniqueIds(coll) ==
    \A i, j \in 1..Len(coll) : coll[i].id = coll[j].id => i = j

\* coll holds exactly one document with the id of r, and every field of r
\* has r's value in it.
Carries(coll, r) ==
    /\ Cardinality(Matching(coll, r.id)) = 1
    /\ \A f \in DOMAIN r :
          /\ f \in DOMAIN coll[FirstMatch(coll, r.id)]
          /\ coll[FirstMatch(coll, r.id)][f] = r[f]

\* Entry k of the list l is the last one with its id.
LastOfItsId(l, k) == \A m \in (k + 1)..Len(l) : l[m].id # l[k].id

\* predict failed: it raised, or what it returned lacks one of the six scores.
ScorerFailed(pred) ==
    pred.raised \/ ~(SixScores \subseteq DOMAIN pred.results)

\* The item the batch run is about to process.
CurrentItem == task.items[task.idx]

\* C1: after any upload or batch step (runs one at a time), each collection
\* holds at most one document per id, no id once stored is lost, and every
\* successful save leaves exactly one document for its id, carrying the
\* field values of that save (so the second ingestion of an id wins).
C1_OneRecordPerIdLastValues ==
    [][/\ UniqueIds(posts') /\ UniqueIds(analyses')
       /\ \A id \in Ids :
             /\ Matching(posts, id) # {} => Matching(posts', id) # {}
             /\ Matching(analyses, id) # {} => Matching(analyses', id) # {}
       /\ (response'.op = "upload_posts" /\ response'.status = 200) =>
             \A ps \in ItemLists(MaxUpload) :
                (Len(ps) = response'.count /\ upload_posts(ps, 0)) =>
                   \A k \in 1..Len(ps) :
                      LastOfItsId(ps, k) => Carries(posts', ps[k])
       /\ task.pc = "running" =>
             \A pred \in Predictions :
                BatchItem(pred, "none") =>
                   /\ Carries(posts',
                              PostRecord(CurrentItem,
                                         clean_text(CurrentItem.text), now))
                   /\ Carries(analyses',
                              AnalysisRecord(CurrentItem,
                                             clean_text(CurrentItem.text), now,
                                             analyze_toxicity(pred)))
      ]_vars

\* One run has ingested the same id twice and one document per collection
\* is left, with the second ingestion's timestamp.
C1_Witness ==
    /\ task.pc = "done" /\ task.total = 2 /\ task.processed = 2
    /\ Len(posts) = 1 /\ Len(analyses) = 1
    /\ posts[1].processed_at = 1 /\ analyses[1].analyzed_at = 1

\* C2: a store write failing on item n does not end the run, which goes on
\* to item n+1: once the file is loaded, the run is over only when its last
\* item has been reached.
C2_StoreFailureSkipsOnlyThatItem ==
    (task.loaded /\ task.pc \in {"done", "aborted"}) => task.idx >= task.total

\* C3: when no store write fails, every item is processed; an item whose
\* scorer call failed gets a stored result with six scores 0, is_toxic
\* false and confidence "error", any other item one with confidence high,
\* medium or low; and the finished run has processed_count = total_count.
C3_ScorerFailureSentinel ==
    [][/\ task.pc = "running" =>
          \A pred \in Predictions :
             BatchItem(pred, "none") =>
                /\ task'.pc # "aborted"
                /\ task'.processed = task.processed + 1
                /\ Cardinality(Matching(analyses', CurrentItem.id)) = 1
                /\ LET r == analyses'[FirstMatch(analyses', CurrentItem.id)] IN
                   IF ScorerFailed(pred)
                   THEN /\ \A k \in SixScores : r[k] = 0
                        /\ r.is_toxic = FALSE
                        /\ r.confidence_level = "error"
                   ELSE r.confidence_level \in {"high", "medium", "low"}
       /\ task'.pc = "done" => task'.processed = task'.total
      ]_vars

\* A finished run of two items, one given the sentinel and one a tier.
C3_Witness ==
    /\ task.pc = "done" /\ task.total = 2 /\ task.processed = 2
    /\ \E i, j \in 1..Len(analyses) :
          /\ analyses[i].confidence_level = "error"
          /\ analyses[j].confidence_level \in {"high", "medium", "low"}
          /\ {analyses[i].analyzed_at, analyses[j].analyzed_at} = {0, 1}

\* C4: an upsert on an existing id replaces the whole document: after a
\* successful upload the stored document has exactly the fields uploaded.
C4_UpsertReplacesAllFields ==
    [][response'.op = "upload_posts" =>
          \A ps \in ItemLists(MaxUpload) :
             upload_posts(ps, 0) =>
                \A k \in 1..Len(ps) :
                   DOMAIN posts'[FirstMatch(posts', ps[k].id)] = DOMAIN ps[k]
      ]_vars

\* C5: process_file with the file absent answers 404 and schedules no task.
C5_MissingFileIs404 ==
    (response.op = "process_file" /\ file = "absent") =>
        (response.status = 404 /\ pending = 0)

\* C6: a query whose read of the collection failed does not answer success.
C6_ReadFailureIsReported ==
    (response.op \in {"get_posts", "get_analysis"} /\ log # <<>>) =>
        response.status # 200

\* C7: every stored result that is no scorer-failure sentinel has
\* is_toxic true exactly when its toxicity is above 0.7.
C7_ToxicIffAboveThreshold ==
    \A i \in 1..Len(analyses) :
        analyses[i].confidence_level # "error" =>
            (analyses[i].is_toxic <=> analyses[i].toxicity > 70)

\* Results at the threshold and just above it are stored.
C7_Witness ==
    \E i, j \in 1..Len(analyses) :
        /\ analyses[i].toxicity = 70 /\ ~analyses[i].is_toxic
        /\ analyses[j].toxicity = 71 /\ analyses[j].is_toxic

\* The tier of the greatest of the six scores of an analysis.
TierOfSix(analysis) ==
    LET m == Max({analysis[k] : k \in SixScores}) IN
    IF m > 80 THEN "high" ELSE IF m > 50 THEN "medium" ELSE "low"

\* C8: a result produced without scorer failure has the tier of the maximum
\* of its six scores; "error" appears only when the scorer failed.
C8_ConfidenceFromSixScores ==
    analysisOut # <<>> =>
        IF ScorerFailed(scorerOut)
        THEN analysisOut.confidence_level = "error"
        ELSE analysisOut.confidence_level = TierOfSix(analysisOut)

\* C9: cleaning a cleaned text changes nothing.
C9_CleanIdempotent ==
    Len(cleanOuts) = 2 => cleanOuts[2] = cleanOuts[1]

\* A text the first pass changed, without emptying it, went through twice.
C9_Witness ==
    /\ Len(cleanOuts) = 2
    /\ cleanOuts[1] # cleanIn
    /\ cleanOuts[1] # <<>>

CleanedExampleOneBang ==
    <<"C","h","e","c","k"," ","y","o","u"," ","a","r","e"," ",
      "t","r","a","s","h"," ","!">>

CleanedExampleTwoBangs == CleanedExampleOneBang \o <<"!">>

\* A step processing the item with id "1" and the example text hands
\* `cleaned` to the classifier and stores it in both documents keyed "1".
ExampleYields(cleaned) ==
    (task.pc = "running" /\ CurrentItem = RawItem("1", ExampleText)) =>
        \A pred \in Predictions :
            BatchItem(pred, "none") =>
               /\ task'.scored = cleaned
               /\ Carries(posts', [id |-> "1", text |-> ExampleText,
                                   cleaned_text |-> cleaned])
               /\ Carries(analyses', [id |-> "1", text |-> cleaned])

\* C10: the example text is cleaned to "Check you are trash !", the
\* classifier gets that text, and both documents are stored under "1".
C10_ExampleOneBang == [][ExampleYields(CleanedExampleOneBang)]_vars

\* C10 as amended: the cleaned text is "Check you are trash !!" (both
\* exclamation marks are kept).
C10_ExampleTwoBangs == [][ExampleYields(CleanedExampleTwoBangs)]_vars

\* The example item has been processed and stored.
C10_Witness ==
    /\ task.scored = CleanedExampleTwoBangs
    /\ \E i \in 1..Len(posts) :
          /\ posts[i].id = "1" /\ posts[i].text = ExampleText
          /\ "cleaned_text" \in DOMAIN posts[i]
          /\ posts[i].cleaned_text = CleanedExampleTwoBangs
    /\ \E i \in 1..Len(analyses) :
          analyses[i].id = "1" /\ analyses[i].text = CleanedExampleTwoBangs

\* Process w's update_one or insert_one of save_post has just been applied.
WrotePost(w) ==
    /\ workers[w].pc = "post_write"
    /\ workers'[w].pc \in {"analysis_find", "next"}

\* Process w's update_one or insert_one of save_analysis has just been applied.
WroteAnalysis(w) ==
    /\ workers[w].pc = "analysis_write"
    /\ workers'[w].pc = "next"

\* C11: when the upserts of two server processes of which one at least is a
\* batch run (two batch runs, or a batch run and an upload) interleave, each
\* collection holds at most one document per id after every step, and the
\* document of an id is the one written last: right after a process's
\* write, the one document with that id carries the values that process
\* wrote.
C11_InterleavedUpsertsLastWriteWins ==
    [][ (\E b \in Workers : workers'[b].kind = "batch") =>
           /\ UniqueIds(posts')
           /\ UniqueIds(analyses')
           /\ \A w \in Workers :
                 /\ WrotePost(w) => Carries(posts', workers[w].post_record)
                 /\ WroteAnalysis(w) =>
                       Carries(analyses', workers[w].analysis_record) ]_vars

=============================================================================
